---- MODULE Spec2Model ----
(***************************************************************************)
(* retrodb: the subscribable change-log substrate                          *)
(* (src/src/db/types/subscribable.py) as carried by a SELECT view          *)
(* (src/src/db/views/select.py).  The view's worker dispatches upstream    *)
(* changes to the view's callbacks, which append to / erase from the       *)
(* view's own history; client threads subscribe to and unsubscribe from    *)
(* the view.  Every step is one atomic piece of the code: a region that    *)
(* holds _pubsub_lock, or a single unlocked assignment.                    *)
(***************************************************************************)
EXTENDS Integers, Sequences, FiniteSets, TLC

\* ------------------------------------------------------------------ bounds
NSubs == 2          \* client threads subscribing to the view
MaxToken == 3       \* checkpoint tokens are 0..MaxToken (the code: 0..2^64-1)
MaxOps == 2         \* upstream changes the worker dispatches
MaxCite == 2        \* records cited by one upstream ERASE
MaxTime == 2        \* record times are 1..MaxTime
MaxVal == 2         \* field values are 1..MaxVal
MaxCalls == 2       \* calls made on the RTable
MaxStoreOps == 4    \* insert, delete and erase calls on the subscribable table
MaxEmpty == 8       \* timeouts in a row of a worker whose backoff is followed
MaxIdle == 1        \* timeouts in a row of a worker whose shutdown is followed
MaxWrites == 2      \* appends to a table whose waiting subscribers are followed

ViewTime == 1       \* Select._time of the modelled view

Subs == 1..NSubs
Tokens == 0..MaxToken
Times == 1..MaxTime
Vals == 1..MaxVal

\* Python's None as a checkpoint argument, and "some token that is not in the
\* checkpoint map" as a checkpoint argument.
NoCp == -1
UnknownCp == -2

\* ----------------------------------------------------------------- records
\* A history slot: a Record (rrecord.py) or None.  id tells objects apart (Python
\* identity); Record.__eq__ does not look at it.
None == [action |-> "NONE", id |-> 0, time |-> 0, val |-> 0, cites |-> <<>>]

Record(action, id, time, val) ==
  [action |-> action, id |-> id, time |-> time, val |-> val, cites |-> <<>>]

Erasure(time, recs) ==
  [action |-> "ERASE", id |-> 0, time |-> time, val |-> 0, cites |-> recs]

\* Record.__eq__(self, other): action, table, time and every field value.
RecordEq(self, other) ==
  /\ other # None
  /\ self.action = other.action
  /\ self.time = other.time
  /\ self.val = other.val

\* Python's `x in records` for a tuple of records: identity or __eq__.
InRecords(x, recs) ==
  \E i \in 1..Len(recs) : recs[i] = x \/ (recs[i] # None /\ RecordEq(recs[i], x))

\* Record.delete(time): the paired DELETE record, carrying self's values.
RecordDelete(self, time) == Record("DELETE", self.id, time, self.val)

\* ------------------------------------------------------------------- state
VARIABLES
  history,          \* Subscribable._history
  history_epoch,    \* Subscribable._history_epoch
  checkpoint_map,   \* Subscribable._checkpoint_map: token -> [stamp, refcount]
  history_map,      \* Subscribable._history_map: stamp -> token
  records,          \* Select._records: the matched upstream records
  value,            \* Select._value: the projections, parallel to records
  worker,           \* the view's worker thread: where it is in a callback
  ops,              \* upstream changes dispatched so far
  up,               \* the upstream INSERT records dispatched so far
  up_state,         \* per upstream record: "live", "deleted" or "erased"
  sub,              \* the client threads
  stream,           \* every slot ever appended to history, erasures applied
  table,            \* the RTable of rtable.py and the last call made on it
  store,            \* a subscribable table: its buckets and its history
  obj,              \* the Record objects of the table and of its views
  views,            \* SUM(store), SELECT(store) and SUM(SELECT(store))
  src,              \* the table as a Subscribable: epoch and the two maps
  own,              \* the two maps of SELECT(store) as a Subscribable
  thread,           \* RView._cb_thread of SELECT(store)
  exit_event,       \* RView._pubsub_exit_event
  exited_event,     \* RView._pubsub_exited_event
  caller            \* the threads that call free and subscribe from outside

\* The worker thread of a view, its events and the threads around it.
lifevars == <<src, own, thread, exit_event, exited_event, caller>>

vars == <<history, history_epoch, checkpoint_map, history_map, records, value,
          worker, ops, up, up_state, sub, stream, table, store, obj, views,
          lifevars>>

\* What the steps of the view and of its clients leave alone.
rest == <<table, store, obj, views, lifevars>>

\* The subscribable table with its stack of views.
stackvars == <<store, obj, views>>

\* The view with its substrate and clients.
viewvars == <<history, history_epoch, checkpoint_map, history_map, records, value,
              worker, ops, up, up_state, sub, stream, lifevars>>

\* What the steps of a view's worker thread and of the threads around it leave
\* alone.
apart == <<history, history_epoch, checkpoint_map, history_map, records, value,
           worker, ops, up, up_state, sub, stream, table>>

substrate == <<history, history_epoch, checkpoint_map, history_map>>

\* ----------------------------------------------------------------- helpers
MapPut(f, k, v) == [x \in (DOMAIN f) \cup {k} |-> IF x = k THEN v ELSE f[x]]

MapDel(f, k) == [x \in (DOMAIN f) \ {k} |-> f[x]]

MinOf(S) == CHOOSE x \in S : \A y \in S : x <= y

RemoveAt(seq, i) == SubSeq(seq, 1, i - 1) \o SubSeq(seq, i + 1, Len(seq))

\* seq[n:] of Python
DropFirst(seq, n) == SubSeq(seq, n + 1, Len(seq))

\* tuple(filter(lambda record: record, records)): None is falsy; a Record is
\* truthy when it has at least one field (Record.__len__), as all here do.
FilterNone(seq) == SelectSeq(seq, LAMBDA r : r # None)

Cur ==
  [history |-> history, epoch |-> history_epoch,
   cmap |-> checkpoint_map, hmap |-> history_map]

\* len(self._history) + self._history_epoch
TailStamp(s) == Len(s.history) + s.epoch

\* --------------------------------------------------------------- substrate
\* Subscribable._add_to_history(*records)
AddToHistory(s, recs) == [s EXCEPT !.history = s.history \o recs]

\* An erasure that compacts: the matching slots are dropped instead of nulled.
RemoveFromHistoryCompacts(s, recs) ==
  LET kept == SelectSeq(s.history, LAMBDA r : ~InRecords(r, recs))
  IN [s EXCEPT !.history =
        IF Len(recs) > 0 THEN Append(kept, Erasure(recs[1].time, recs))
        ELSE kept]

\* Subscribable._remove_from_history(*records): every slot that is `in records`
\* becomes None; one Erasure(records[0].time, *records) is appended when records
\* is not empty.
RemoveFromHistory(s, recs) ==
  LET nulled == [i \in 1..Len(s.history) |->
                   IF InRecords(s.history[i], recs) THEN None ELSE s.history[i]]
  IN [s EXCEPT !.history =
        IF Len(recs) > 0 THEN Append(nulled, Erasure(recs[1].time, recs))
        ELSE nulled]

\* A generator that trusts the preferred token without looking it up.
GenerateCheckpointTrusting(s, checkpoint) ==
  IF checkpoint = NoCp THEN Tokens \ DOMAIN s.cmap ELSE {checkpoint}

\* Subscribable._generate_checkpoint(checkpoint): the tokens it can return.  The
\* preferred token when it is given and unused, else any unused token (random
\* draws are repeated until one is unused).
GenerateCheckpoint(s, checkpoint) ==
  IF checkpoint = NoCp \/ checkpoint \in DOMAIN s.cmap
  THEN Tokens \ DOMAIN s.cmap
  ELSE {checkpoint}

\* The tokens a subscribe call can end up minting in the lifecycle models.  The
\* code tests a token for membership in the map, for equality and for truth
\* only, so the tokens other than 0 are interchangeable and the least unused one
\* stands for them all.
DrawToken(s) ==
  LET unused == GenerateCheckpoint(s, NoCp)
  IN {t \in unused : t = 0 \/ \A u \in unused : u = 0 \/ t <= u}

\* Subscribable._checkpoint_now(checkpoint), with `tok` the token that
\* _generate_checkpoint returns should one be needed: the substrate afterwards.
CheckpointNow(s, tok) ==
  LET stamp == TailStamp(s)
  IN IF stamp \notin DOMAIN s.hmap
     THEN [s EXCEPT !.hmap = MapPut(s.hmap, stamp, tok),
                    !.cmap = MapPut(s.cmap, tok, [stamp |-> stamp, refcount |-> 1])]
     ELSE [s EXCEPT !.cmap[s.hmap[stamp]].refcount = @ + 1]

\* An unsubscribe that truncates history without advancing the epoch.
UnsubscribeKeepsEpoch(s, checkpoint) ==
  LET stamp == s.cmap[checkpoint].stamp
      refcount == s.cmap[checkpoint].refcount - 1
  IN IF refcount # 0
     THEN [s EXCEPT !.cmap[checkpoint].refcount = refcount]
     ELSE LET cmap == MapDel(s.cmap, checkpoint)
              hmap == MapDel(s.hmap, stamp)
              keys == DOMAIN hmap
          IN IF keys # {} /\ MinOf(keys) > stamp
             THEN [history |-> DropFirst(s.history, MinOf(keys) - stamp),
                   epoch |-> s.epoch, cmap |-> cmap, hmap |-> hmap]
             ELSE [s EXCEPT !.cmap = cmap, !.hmap = hmap]

\* Subscribable.unsubscribe(checkpoint)
Unsubscribe(s, checkpoint) ==
  LET stamp == s.cmap[checkpoint].stamp
      refcount == s.cmap[checkpoint].refcount - 1
  IN IF refcount # 0
     THEN [s EXCEPT !.cmap[checkpoint].refcount = refcount]
     ELSE LET cmap == MapDel(s.cmap, checkpoint)
              hmap == MapDel(s.hmap, stamp)
              keys == DOMAIN hmap
          IN IF keys # {} /\ MinOf(keys) > stamp
             THEN LET diff == MinOf(keys) - stamp
                  IN [history |-> DropFirst(s.history, diff),
                      epoch |-> s.epoch + diff,
                      cmap |-> cmap, hmap |-> hmap]
             ELSE [s EXCEPT !.cmap = cmap, !.hmap = hmap]

\* Lines 149-150: a checkpoint that is not in the map is treated as None.
Validated(s, arg) == IF arg \in DOMAIN s.cmap THEN arg ELSE NoCp

\* The wait_for predicate of subscribe (lines 154-155).
HasNews(s, checkpoint) == TailStamp(s) > s.cmap[checkpoint].stamp

\* Python truthiness of the checkpoint in `if checkpoint:` (line 161).
Truthy(checkpoint) == checkpoint # NoCp /\ checkpoint # 0

\* subscribe from line 159 on, for a checkpoint that is valid or None, with
\* `tok` drawn for _checkpoint_now and `all` what _all_records() returns:
\* the substrate afterwards, the new checkpoint and the changes.
SubscribeFinish(s, checkpoint, tok, all) ==
  LET s1 == CheckpointNow(s, tok)
      new_checkpoint == s1.hmap[TailStamp(s)]
  IN IF Truthy(checkpoint)
     THEN LET old_index == s1.cmap[checkpoint].stamp - s1.epoch
              new_index == s1.cmap[new_checkpoint].stamp - s1.epoch
          IN [sub |-> Unsubscribe(s1, checkpoint),
              cp |-> new_checkpoint,
              changes |-> FilterNone(SubSeq(s1.history, old_index + 1, new_index))]
     ELSE [sub |-> s1, cp |-> new_checkpoint, changes |-> FilterNone(all)]

\* A timeout return that gives up the caller's reference.
SubscribeTimeoutConsumes(s, checkpoint) ==
  [sub |-> Unsubscribe(s, checkpoint), cp |-> checkpoint, changes |-> <<>>]

\* subscribe's timeout return (line 157): nothing changes, the caller keeps its
\* checkpoint.
SubscribeTimeout(s, checkpoint) == [sub |-> s, cp |-> checkpoint, changes |-> <<>>]

\* Select._all_records()
AllRecords == records

\* =================================================================== RTable
\* The table of src/src/db/rtable.py: a schema, the records keyed on time and a
\* history of (record, checkpoint) pairs.  Its state is the variable table; call
\* is the last call made on it, with its arguments and how it ended.
Fields == {"key", "value"}            \* RTable.schema.keys()
Names == Fields \cup {"other"}        \* keyword names a caller may pass
Kwargs == UNION {[D -> Vals] : D \in SUBSET Names}

\* numbers.Int.default()
IntDefault == 0

\* Record.__init__ for a table record: every schema field, taken from values or
\* from the column type's default.  Keywords outside the schema are not read.
TableRecord(action, id, time, values) ==
  [action |-> action, id |-> id, time |-> time,
   values |-> [f \in Fields |-> IF f \in DOMAIN values THEN values[f]
                                ELSE IntDefault]]

NoCall == [op |-> "none", time |-> 0, values |-> <<>>, record |-> 0,
           raised |-> "none", returned |-> <<>>]

TableInit ==
  [records |-> [t \in Times |-> <<>>], history |-> <<>>, made |-> 0,
   calls |-> 0, call |-> NoCall]

\* A validation that accepts every keyword.
InvalidFieldsNone(values) == {}

\* RTable.insert, line 159: values.keys() - self._schema.keys()
InvalidFields(values) == (DOMAIN values) \ Fields

\* RTable.insert(time, **values)
RTableInsert(time, values) ==
  /\ table.calls < MaxCalls
  /\ LET record == TableRecord("INSERT", table.made + 1, time, values)
         call == [NoCall EXCEPT !.op = "insert", !.time = time, !.values = values]
     IN IF InvalidFields(values) # {}
        THEN table' = [table EXCEPT
               !.calls = @ + 1,
               !.call = [call EXCEPT !.raised = "RTableInvalidFieldException"]]
        ELSE table' = [table EXCEPT
               !.records[time] = Append(@, record),
               !.history = Append(@, <<record, None>>),
               !.made = @ + 1,
               !.calls = @ + 1,
               !.call = [call EXCEPT !.returned = <<record>>]]
  /\ UNCHANGED <<viewvars, stackvars>>

\* The records a caller can hold: those insert returned.
TableHeld == {table.history[i][1] : i \in 1..Len(table.history)}

\* RTable.delete(time, record): line 117 calls record.delete() without the time
\* Record.delete requires, so the call raises TypeError before line 118.
RTableDelete(time, record) ==
  /\ table.calls < MaxCalls
  /\ record \in TableHeld
  /\ table' = [table EXCEPT
       !.calls = @ + 1,
       !.call = [NoCall EXCEPT !.op = "delete", !.time = time,
                               !.record = record.id, !.raised = "TypeError"]]
  /\ UNCHANGED <<viewvars, stackvars>>

\* RTable.erase(time): the bucket is taken out (lines 133-134); then line 137
\* compares a history pair with a record, and Record.__eq__ raises
\* AttributeError on the tuple, at the first pair when the bucket is not empty.
RTableErase(time) ==
  /\ table.calls < MaxCalls
  /\ LET erased == table.records[time]
         call == [NoCall EXCEPT !.op = "erase", !.time = time]
     IN table' = [table EXCEPT
          !.records[time] = <<>>,
          !.calls = @ + 1,
          !.call = IF Len(erased) > 0 /\ Len(table.history) > 0
                   THEN [call EXCEPT !.raised = "AttributeError"]
                   ELSE [call EXCEPT !.returned = erased]]
  /\ UNCHANGED <<viewvars, stackvars>>

\* ==================================================================== stack
\* A subscribable table feeding SUM and SELECT views (the tests build them with
\* table.sum and table.select), each view at view time ViewTime on the one
\* field of the schema.  Record objects live in obj, keyed by identity: U-ids
\* are the table's records, V-ids the DELETE records SELECT derives.  inv is
\* Record._inversion; of (the INSERT a DELETE was derived from) and gone (erased
\* by the table) are history variables.
Nil == <<"nil", 0>>

NewObj(action, time, val, inv) ==
  [action |-> action, time |-> time, val |-> val, inv |-> inv,
   of |-> IF action = "DELETE" THEN inv ELSE Nil, gone |-> FALSE]

\* History slots: a record, None, or an Erasure with the records it cites.
RecSlot(id) == [kind |-> "rec", id |-> id, time |-> 0, cites |-> <<>>]
NoneSlot == [kind |-> "none", id |-> Nil, time |-> 0, cites |-> <<>>]
EraseSlot(time, ids) == [kind |-> "erase", id |-> Nil, time |-> time, cites |-> ids]

\* Record.__eq__ on two objects of the same table; False for None.
ObjEq(o, a, b) ==
  /\ b # Nil
  /\ o[a].action = o[b].action
  /\ o[a].time = o[b].time
  /\ o[a].val = o[b].val

\* Python's `a in ids`: identity or __eq__.
ObjIn(o, a, ids) == \E i \in 1..Len(ids) : ids[i] = a \/ ObjEq(o, ids[i], a)

\* Record.delete(time) on object r, the new DELETE object taking identity d:
\* d carries r's values, r._inversion = d and d._inversion = r.
ObjDelete(o, r, d, time) ==
  [x \in (DOMAIN o) \cup {d} |->
     IF x = d THEN NewObj("DELETE", time, o[r].val, r)
     ELSE IF x = r THEN [o[r] EXCEPT !.inv = d]
     ELSE o[x]]

\* Subscribable._add_to_history on a history of slots.
SlotsAdd(h, slots) == h \o slots

\* Subscribable._remove_from_history(*ids) on a history of slots.
SlotsRemove(o, h, ids) ==
  LET nulled == [i \in 1..Len(h) |->
                   IF h[i].kind = "rec" /\ ObjIn(o, h[i].id, ids)
                   THEN NoneSlot ELSE h[i]]
  IN IF Len(ids) > 0 THEN Append(nulled, EraseSlot(o[ids[1]].time, ids))
     ELSE nulled

\* tuple(filter(lambda record: record, records)) on slots
SlotsFilter(h) == SelectSeq(h, LAMBDA s : s.kind # "none")

\* --- SELECT (select.py) as functions of the view v and the objects o; each
\* returns the view and the objects after the callback.
\* An insertion callback without the view-time test.
SelectOnInsertNoCutoff(v, o, id) ==
  [v |-> [v EXCEPT !.records = Append(@, id),
                   !.value = Append(@, o[id].val),
                   !.history = SlotsAdd(@, <<RecSlot(id)>>)],
   o |-> o]

\* Select._callback_insert(record), with no predicates
SelectOnInsert(v, o, id) ==
  IF o[id].time <= ViewTime
  THEN [v |-> [v EXCEPT !.records = Append(@, id),
                        !.value = Append(@, o[id].val),
                        !.history = SlotsAdd(@, <<RecSlot(id)>>)],
        o |-> o]
  ELSE [v |-> v, o |-> o]

\* Select._callback_delete(record): the first matched record equal to
\* record._inversion is deleted at the view's time and dropped.
SelectOnDelete(v, o, id) ==
  LET hits == {i \in 1..Len(v.records) : ObjEq(o, v.records[i], o[id].inv)}
  IN IF o[id].time <= ViewTime /\ hits # {}
     THEN LET index == MinOf(hits)
              d == <<"V", v.made + 1>>
          IN [v |-> [v EXCEPT !.records = RemoveAt(@, index),
                              !.value = RemoveAt(@, index),
                              !.history = SlotsAdd(@, <<RecSlot(d)>>),
                              !.made = @ + 1],
              o |-> ObjDelete(o, v.records[index], d, ViewTime)]
     ELSE [v |-> v, o |-> o]

\* The loop of Select._callback_erase from position index on: a matched record
\* that is `in records` is dropped; the inner loop ends only if it equals
\* records[0], which is then consumed; otherwise the worker spins (hung).
RECURSIVE SelectEraseLoop(_, _, _, _)
SelectEraseLoop(v, o, index, recs) ==
  IF index > Len(v.records) THEN v
  ELSE LET record == v.records[index]
       IN IF ObjIn(o, record, recs)
          THEN LET dropped == [v EXCEPT !.records = RemoveAt(@, index),
                                        !.value = RemoveAt(@, index)]
               IN IF ObjEq(o, record, recs[1])
                  THEN SelectEraseLoop(
                         [dropped EXCEPT !.history = SlotsRemove(o, @, <<record>>)],
                         o, index, Tail(recs))
                  ELSE [dropped EXCEPT !.hung = TRUE]
          ELSE SelectEraseLoop(v, o, index + 1, recs)

\* Select._callback_erase(time, records)
SelectOnErase(v, o, time, recs) ==
  [v |-> IF time <= ViewTime THEN SelectEraseLoop(v, o, 1, recs) ELSE v,
   o |-> o]

\* --- SUM (sum.py).  The view's own records are values: nothing subscribes to a
\* SUM here.
SumRecord(action, val) == [action |-> action, time |-> ViewTime, val |-> val]

\* An update that publishes the new INSERT without deleting the current record.
SumUpdateInsertOnly(v, val) ==
  [v EXCEPT !.history = @ \o <<SumRecord("INSERT", val)>>,
            !.value = val]

\* Sum._update(value): the current record's DELETE, then the new INSERT.
SumUpdate(v, val) ==
  [v EXCEPT !.history = @ \o <<SumRecord("DELETE", v.value),
                               SumRecord("INSERT", val)>>,
            !.value = val]

\* Sum._callback_insert(record)
SumOnInsert(v, o, id) ==
  [v |-> IF o[id].time <= ViewTime THEN SumUpdate(v, v.value + o[id].val) ELSE v,
   o |-> o]

\* Sum._callback_delete(record)
SumOnDelete(v, o, id) ==
  [v |-> IF o[id].time <= ViewTime THEN SumUpdate(v, v.value - o[id].val) ELSE v,
   o |-> o]

\* Sum._callback_erase, the loop: every cited INSERT and every cited DELETE
\* subtracts its field.
RECURSIVE SumEraseValue(_, _, _)
SumEraseValue(val, o, recs) ==
  IF recs = <<>> THEN val
  ELSE SumEraseValue(
         IF o[recs[1]].action \in {"INSERT", "DELETE"}
         THEN val - o[recs[1]].val ELSE val,
         o, Tail(recs))

\* Sum._callback_erase(time, records)
SumOnErase(v, o, time, recs) ==
  [v |-> IF time <= ViewTime THEN SumUpdate(v, SumEraseValue(v.value, o, recs))
         ELSE v,
   o |-> o]

\* --- the subscribable table: insert, delete and erase on buckets keyed on
\* time, each publishing to the table's history.
StoreInit == [bucket |-> [t \in Times |-> <<>>], history |-> <<>>, made |-> 0,
              ops |-> 0]

\* Table.insert(time, value): a fresh INSERT record, appended to its bucket and
\* to history.
StoreInsert(time, val) ==
  /\ store.ops < MaxStoreOps
  /\ LET id == <<"U", store.made + 1>>
     IN /\ obj' = [x \in (DOMAIN obj) \cup {id} |->
                     IF x = id THEN NewObj("INSERT", time, val, Nil) ELSE obj[x]]
        /\ store' = [store EXCEPT !.bucket[time] = Append(@, id),
                                  !.history = SlotsAdd(@, <<RecSlot(id)>>),
                                  !.made = @ + 1, !.ops = @ + 1]
  /\ UNCHANGED <<views, viewvars, table>>

\* The INSERT records of the table that it has neither deleted nor erased.
Deletable ==
  {r \in DOMAIN obj :
     /\ r[1] = "U" /\ obj[r].action = "INSERT" /\ ~obj[r].gone
     /\ \A d \in DOMAIN obj : ~(d[1] = "U" /\ obj[d].of = r)}

\* Table.delete(time, record): record.delete(time), appended to the bucket of
\* the original record and to history.
StoreDelete(time, r) ==
  /\ store.ops < MaxStoreOps
  /\ r \in Deletable
  /\ LET d == <<"U", store.made + 1>>
     IN /\ obj' = ObjDelete(obj, r, d, time)
        /\ store' = [store EXCEPT !.bucket[obj[r].time] = Append(@, d),
                                  !.history = SlotsAdd(@, <<RecSlot(d)>>),
                                  !.made = @ + 1, !.ops = @ + 1]
  /\ UNCHANGED <<views, viewvars, table>>

\* Table.erase, breaking the inversion links of the removed records in turn: a
\* partner whose inversion still points at the removed record loses it.
RECURSIVE BreakLinks(_, _)
BreakLinks(o, ids) ==
  IF ids = <<>> THEN o
  ELSE LET x == ids[1]
           partner == o[x].inv
           cleared == IF partner # Nil /\ o[partner].inv = x
                      THEN [o EXCEPT ![partner].inv = Nil] ELSE o
       IN BreakLinks([cleared EXCEPT ![x].gone = TRUE], Tail(ids))

\* Table.erase(time): the bucket is removed, the links are broken and
\* _remove_from_history is called with the removed records.
StoreErase(time) ==
  /\ store.ops < MaxStoreOps
  /\ store.bucket[time] # <<>>
  /\ LET erased == store.bucket[time]
     IN /\ obj' = BreakLinks(obj, erased)
        /\ store' = [store EXCEPT !.bucket[time] = <<>>,
                                  !.history = SlotsRemove(obj, @, erased),
                                  !.ops = @ + 1]
  /\ UNCHANGED <<views, viewvars, table>>

\* --- the workers of the three views (RView._callback, RView._apply_changes)
ViewNames == {"sum", "sel", "sum2"}

\* A second SUM on the table, of the same field and view time, whose worker has
\* not made its first subscribe yet.
LateSum == "sum_late"

IsSum(n) == n \in {"sum", "sum2", LateSum}

ViewInit(n) ==
  [value |-> IF IsSum(n) THEN IntDefault ELSE <<>>,
   records |-> <<>>,
   history |-> IF IsSum(n) THEN <<SumRecord("INSERT", IntDefault)>> ELSE <<>>,
   made |-> 0, hung |-> FALSE, cp |-> IF n = LateSum THEN NoCp ELSE 0,
   batch |-> <<>>]

\* The history a view's worker subscribes to: SUM and SELECT read the table,
\* the second SUM reads SELECT.
Upstream(n) == IF n = "sum2" THEN views["sel"].history ELSE store.history

\* RView._callback, one round: subscribe(checkpoint) returns the window after
\* the worker's checkpoint, None slots filtered out, and the new checkpoint.
Pull(n) ==
  /\ views[n].batch = <<>>
  /\ ~views[n].hung
  /\ views[n].cp < Len(Upstream(n))
  /\ views' = [views EXCEPT
       ![n].batch = SlotsFilter(SubSeq(Upstream(n), views[n].cp + 1,
                                       Len(Upstream(n)))),
       ![n].cp = Len(Upstream(n))]
  /\ UNCHANGED <<store, obj, viewvars, table>>

\* The table's _all_records(): the records of its buckets, by time.
RECURSIVE Buckets(_)
Buckets(t) ==
  IF t = 0 THEN <<>>
  ELSE Buckets(t - 1)
         \o [i \in 1..Len(store.bucket[t]) |-> RecSlot(store.bucket[t][i])]

StoreAllRecords == Buckets(MaxTime)

\* RView._callback, the first round of a worker that starts with checkpoint
\* None: subscribe(None) returns what the table's _all_records() returns, None
\* filtered out, and a checkpoint at the tail.
Join(n) ==
  /\ views[n].cp = NoCp
  /\ views' = [views EXCEPT
       ![n].batch = SlotsFilter(StoreAllRecords),
       ![n].cp = Len(Upstream(n))]
  /\ UNCHANGED <<store, obj, viewvars, table>>

\* RView._apply_changes, the dispatch of one change by its action.
Apply(n, v, o, slot) ==
  IF slot.kind = "erase"
  THEN IF IsSum(n) THEN SumOnErase(v, o, slot.time, slot.cites)
       ELSE SelectOnErase(v, o, slot.time, slot.cites)
  ELSE IF o[slot.id].action = "INSERT"
  THEN IF IsSum(n) THEN SumOnInsert(v, o, slot.id)
       ELSE SelectOnInsert(v, o, slot.id)
  ELSE IF IsSum(n) THEN SumOnDelete(v, o, slot.id)
       ELSE SelectOnDelete(v, o, slot.id)

\* RView._apply_changes, one iteration of its loop.
Dispatch(n) ==
  /\ views[n].batch # <<>>
  /\ ~views[n].hung
  /\ LET r == Apply(n, views[n], obj, Head(views[n].batch))
     IN /\ views' = [views EXCEPT ![n] = [r.v EXCEPT !.batch = Tail(@)]]
        /\ obj' = r.o
  /\ UNCHANGED <<store, viewvars, table>>

\* ================================================================ lifecycle
\* SELECT(store) with its worker thread (RView._callback) subscribed to the
\* table through the table's checkpoint maps, the two events of RView.free, and
\* the threads around them: one calls RView.free on the view, one calls
\* Subscribable.free on the table, one subscribes to the view and one subscribes
\* to the table with timeout=None.  Timeouts are in tenths of a second.
PUBSUB_INITIAL_TIMEOUT == 1
PUBSUB_MAX_TIMEOUT == 100

\* The worker before its first loop test.  checkpoint and timeout are the locals
\* of _callback; since is the number of notify_all calls the thread had seen
\* when it last tested the wait_for predicate.  empties (subscribe calls in a
\* row that returned no changes) and holds (a reference on a checkpoint of the
\* table is held) are history variables.
ThreadInit ==
  [pc |-> "test", checkpoint |-> NoCp, timeout |-> PUBSUB_INITIAL_TIMEOUT,
   since |-> 0, empties |-> 0, holds |-> FALSE]

\* A thread that subscribes to the table.  woke (its last subscribe returned
\* from a wait) is a history variable; timeout tells whether its last wait had
\* one.
IdleWaiter ==
  [pc |-> "idle", held |-> NoCp, since |-> 0, timeout |-> FALSE, woke |-> FALSE]

CallerInit ==
  [free |-> "idle", sfree |-> "idle", reader |-> NoCp,
   waiter |-> [w \in Subs |-> IdleWaiter]]

\* The table as a Subscribable: store.history keeps every slot ever published,
\* and _history is what lies after the epoch.
SrcSub ==
  [history |-> DropFirst(store.history, src.epoch), epoch |-> src.epoch,
   cmap |-> src.cmap, hmap |-> src.hmap]

SetSrc(s) == src' = [epoch |-> s.epoch, cmap |-> s.cmap, hmap |-> s.hmap]

\* SELECT(store) as a Subscribable.  A single subscriber never truncates it.
OwnSub ==
  [history |-> views["sel"].history, epoch |-> 0,
   cmap |-> own.cmap, hmap |-> own.hmap]

SetOwn(s) == own' = [cmap |-> s.cmap, hmap |-> s.hmap]

\* A history that is appended to without a call of notify_all: only the one of
\* free is left.
NotifiesFreeOnly == IF caller.sfree = "idle" THEN 0 ELSE 1

\* The notify_all calls made on the table's condition so far: one by each
\* _add_to_history and _remove_from_history, one by free.
Notifies == store.ops + (IF caller.sfree = "idle" THEN 0 ELSE 1)

\* subscribe from line 159 on over a history of slots, for a checkpoint that is
\* valid or None, with tok drawn for _checkpoint_now and all what
\* _all_records() returns.
SlotsSubscribe(s, checkpoint, tok, all) ==
  LET s1 == CheckpointNow(s, tok)
      new_checkpoint == s1.hmap[TailStamp(s)]
  IN IF Truthy(checkpoint)
     THEN LET old_index == s1.cmap[checkpoint].stamp - s1.epoch
              new_index == s1.cmap[new_checkpoint].stamp - s1.epoch
          IN [sub |-> Unsubscribe(s1, checkpoint),
              cp |-> new_checkpoint,
              changes |-> SlotsFilter(SubSeq(s1.history, old_index + 1, new_index))]
     ELSE [sub |-> s1, cp |-> new_checkpoint, changes |-> SlotsFilter(all)]

\* RView._callback, lines 131-133: subscribe returned the checkpoint it was
\* given.
Backoff(t) ==
  [t EXCEPT !.pc = "test",
            !.timeout = IF 2 * @ < PUBSUB_MAX_TIMEOUT THEN 2 * @
                        ELSE PUBSUB_MAX_TIMEOUT,
            !.empties = @ + 1]

\* subscribe returns to the worker from line 159 on, and the worker goes through
\* lines 131-138 up to the call of _apply_changes.
WorkerReturn(checkpoint, tok) ==
  LET r == SlotsSubscribe(SrcSub, checkpoint, tok, StoreAllRecords)
  IN /\ SetSrc(r.sub)
     /\ IF r.cp = thread.checkpoint
        THEN /\ thread' = Backoff(thread)
             /\ UNCHANGED views
        ELSE /\ thread' = [thread EXCEPT
                  !.pc = IF r.changes = <<>> THEN "test" ELSE "apply",
                  !.checkpoint = r.cp,
                  !.timeout = PUBSUB_INITIAL_TIMEOUT,
                  !.empties = IF r.changes = <<>> THEN @ + 1 ELSE 0,
                  !.holds = TRUE]
             /\ views' = [views EXCEPT !["sel"].batch = r.changes]

\* Lines 129-130 and subscribe up to its wait: the exit event is not set, the
\* worker calls subscribe(checkpoint, timeout); with no valid checkpoint or with
\* news it returns at once, otherwise it starts to wait.
WorkerSubscribe ==
  /\ thread.pc = "test"
  /\ ~exit_event
  /\ LET checkpoint == Validated(SrcSub, thread.checkpoint)
     IN IF checkpoint # NoCp /\ ~HasNews(SrcSub, checkpoint)
        THEN /\ thread' = [thread EXCEPT !.pc = "waiting", !.since = Notifies]
             /\ UNCHANGED <<src, views>>
        ELSE \E tok \in DrawToken(SrcSub) :
               WorkerReturn(checkpoint, tok)
  /\ UNCHANGED <<apart, store, obj, own, exit_event, exited_event, caller>>

\* The worker is woken by a notify_all and tests the predicate again.
WorkerWake ==
  /\ thread.pc = "waiting"
  /\ Notifies > thread.since
  /\ IF HasNews(SrcSub, thread.checkpoint)
     THEN \E tok \in DrawToken(SrcSub) :
            WorkerReturn(thread.checkpoint, tok)
     ELSE /\ thread' = [thread EXCEPT !.since = Notifies]
          /\ UNCHANGED <<src, views>>
  /\ UNCHANGED <<apart, store, obj, own, exit_event, exited_event, caller>>

\* The worker's timeout elapses: wait_for tests the predicate a last time.  With
\* no news subscribe returns (checkpoint, ()) at line 157.
WorkerTimedOut(cap) ==
  /\ thread.pc = "waiting"
  /\ thread.empties < cap \/ exit_event
  /\ IF HasNews(SrcSub, thread.checkpoint)
     THEN \E tok \in DrawToken(SrcSub) :
            WorkerReturn(thread.checkpoint, tok)
     ELSE /\ thread' = Backoff(thread)
          /\ UNCHANGED <<src, views>>
  /\ UNCHANGED <<apart, store, obj, own, exit_event, exited_event, caller>>

\* RView._apply_changes, one iteration of its loop in the worker thread.
WorkerApply ==
  /\ thread.pc = "apply"
  /\ ~views["sel"].hung
  /\ LET r == Apply("sel", views["sel"], obj, Head(views["sel"].batch))
         left == Tail(views["sel"].batch)
     IN /\ views' = [views EXCEPT !["sel"] = [r.v EXCEPT !.batch = left]]
        /\ obj' = r.o
        /\ thread' = [thread EXCEPT
             !.pc = IF left = <<>> /\ ~r.v.hung THEN "test" ELSE "apply"]
  /\ UNCHANGED <<apart, store, src, own, exit_event, exited_event, caller>>

\* Lines 129 and 139: the exit event is set, the worker leaves its loop and sets
\* the exited event.
WorkerLeave ==
  /\ thread.pc = "test"
  /\ exit_event
  /\ exited_event' = TRUE
  /\ thread' = [thread EXCEPT !.pc = "exited"]
  /\ UNCHANGED <<apart, store, obj, views, src, own, exit_event, caller>>

\* Line 140: obj.unsubscribe(checkpoint); a KeyError for a checkpoint that is
\* not in the map, as None is.
WorkerUnsubscribe ==
  /\ thread.pc = "exited"
  /\ IF thread.checkpoint \in DOMAIN src.cmap
     THEN /\ SetSrc(Unsubscribe(SrcSub, thread.checkpoint))
          /\ thread' = [thread EXCEPT !.pc = "done", !.holds = FALSE]
     ELSE /\ thread' = [thread EXCEPT !.pc = "raised"]
          /\ UNCHANGED src
  /\ UNCHANGED <<apart, store, obj, views, own, exit_event, exited_event, caller>>

\* RView.free, line 185.
ViewFreeSet ==
  /\ caller.free = "idle"
  /\ exit_event' = TRUE
  /\ caller' = [caller EXCEPT !.free = "waiting"]
  /\ UNCHANGED <<apart, store, obj, views, src, own, thread, exited_event>>

\* RView.free, line 186: the wait on the exited event ends and free returns.
ViewFreeReturn ==
  /\ caller.free = "waiting"
  /\ exited_event
  /\ caller' = [caller EXCEPT !.free = "returned"]
  /\ UNCHANGED <<apart, store, obj, views, src, own, thread, exit_event,
                 exited_event>>

\* A thread subscribes to the view with subscribe(None).
ReaderSubscribe ==
  /\ caller.reader = NoCp
  /\ \E tok \in DrawToken(OwnSub) :
       LET s == CheckpointNow(OwnSub, tok)
       IN /\ SetOwn(s)
          /\ caller' = [caller EXCEPT !.reader = s.hmap[TailStamp(OwnSub)]]
  /\ UNCHANGED <<apart, store, obj, views, src, thread, exit_event, exited_event>>

\* It unsubscribes from the view.
ReaderUnsubscribe ==
  /\ caller.reader # NoCp
  /\ SetOwn(Unsubscribe(OwnSub, caller.reader))
  /\ caller' = [caller EXCEPT !.reader = NoCp]
  /\ UNCHANGED <<apart, store, obj, views, src, thread, exit_event, exited_event>>

\* subscribe returns to thread w, one of those that subscribe to the table.
WaiterReturn(w, checkpoint, tok) ==
  LET r == SlotsSubscribe(SrcSub, checkpoint, tok, StoreAllRecords)
  IN /\ SetSrc(r.sub)
     /\ caller' = [caller EXCEPT !.waiter[w] =
          [IdleWaiter EXCEPT !.held = r.cp,
                             !.woke = caller.waiter[w].pc = "waiting",
                             !.timeout = caller.waiter[w].timeout]]

\* Thread w calls subscribe(checkpoint, timeout) on the table, with the
\* checkpoint it holds or None, and with a timeout or with timeout=None.
WaiterSubscribe(w) ==
  /\ caller.waiter[w].pc = "idle"
  /\ LET checkpoint == Validated(SrcSub, caller.waiter[w].held)
     IN IF checkpoint # NoCp /\ ~HasNews(SrcSub, checkpoint)
        THEN /\ \E timeout \in BOOLEAN :
                  caller' = [caller EXCEPT !.waiter[w].pc = "waiting",
                                           !.waiter[w].since = Notifies,
                                           !.waiter[w].timeout = timeout,
                                           !.waiter[w].woke = FALSE]
             /\ UNCHANGED src
        ELSE \E tok \in DrawToken(SrcSub) : WaiterReturn(w, checkpoint, tok)
  /\ UNCHANGED <<apart, store, obj, views, own, thread, exit_event, exited_event>>

\* Thread w is woken by a notify_all and tests the predicate again.
WaiterWake(w) ==
  /\ caller.waiter[w].pc = "waiting"
  /\ Notifies > caller.waiter[w].since
  /\ IF HasNews(SrcSub, caller.waiter[w].held)
     THEN \E tok \in DrawToken(SrcSub) :
            WaiterReturn(w, caller.waiter[w].held, tok)
     ELSE /\ caller' = [caller EXCEPT !.waiter[w].since = Notifies]
          /\ UNCHANGED src
  /\ UNCHANGED <<apart, store, obj, views, own, thread, exit_event, exited_event>>

\* The timeout of thread w elapses: wait_for tests the predicate a last time.
\* With no news subscribe returns (checkpoint, ()) at line 157.
WaiterTimedOut(w) ==
  /\ caller.waiter[w].pc = "waiting"
  /\ caller.waiter[w].timeout
  /\ IF HasNews(SrcSub, caller.waiter[w].held)
     THEN \E tok \in DrawToken(SrcSub) :
            WaiterReturn(w, caller.waiter[w].held, tok)
     ELSE /\ caller' = [caller EXCEPT !.waiter[w].pc = "idle",
                                      !.waiter[w].woke = FALSE]
          /\ UNCHANGED src
  /\ UNCHANGED <<apart, store, obj, views, own, thread, exit_event, exited_event>>

\* Thread w unsubscribes from the table.
WaiterUnsubscribe(w) ==
  /\ caller.waiter[w].pc = "idle"
  /\ caller.waiter[w].held # NoCp
  /\ SetSrc(Unsubscribe(SrcSub, caller.waiter[w].held))
  /\ caller' = [caller EXCEPT !.waiter[w] = IdleWaiter]
  /\ UNCHANGED <<apart, store, obj, views, own, thread, exit_event, exited_event>>

\* Subscribable.free on the table, lines 116-117: notify_all under the lock.
SubstrateFreeNotify ==
  /\ caller.sfree = "idle"
  /\ caller' = [caller EXCEPT !.sfree = "polling"]
  /\ UNCHANGED <<apart, store, obj, views, src, own, thread, exit_event,
                 exited_event>>

\* Subscribable.free, line 120: the test of its polling loop.
FreeMayReturn(s) == ~(0 < Cardinality(DOMAIN s.cmap))

\* Subscribable.free, lines 119-121: the loop finds the map empty and free
\* returns.
SubstrateFreeReturn ==
  /\ caller.sfree = "polling"
  /\ FreeMayReturn(SrcSub)
  /\ caller' = [caller EXCEPT !.sfree = "returned"]
  /\ UNCHANGED <<apart, store, obj, views, src, own, thread, exit_event,
                 exited_event>>

\* -------------------------------------------------------------------- Init
EmptyMap == [x \in {} |-> 0]

IdleWorker == [pc |-> "idle", record |-> None, records |-> <<>>, index |-> 0]

IdleSub ==
  [pc |-> "idle", arg |-> NoCp, pref |-> NoCp, timeout |-> FALSE, held |-> NoCp,
   at |-> 0, ret |-> "none", log |-> <<>>]

Init ==
  /\ history = <<>>
  /\ history_epoch = 0
  /\ checkpoint_map = EmptyMap
  /\ history_map = EmptyMap
  /\ records = <<>>
  /\ value = <<>>
  /\ worker = IdleWorker
  /\ ops = 0
  /\ up = <<>>
  /\ up_state = <<>>
  /\ sub = [s \in Subs |-> IdleSub]
  /\ stream = <<>>
  /\ table = TableInit
  /\ store = StoreInit
  /\ obj = EmptyMap
  /\ views = [n \in ViewNames \cup {LateSum} |-> ViewInit(n)]
  /\ src = [epoch |-> 0, cmap |-> EmptyMap, hmap |-> EmptyMap]
  /\ own = [cmap |-> EmptyMap, hmap |-> EmptyMap]
  /\ thread = ThreadInit
  /\ exit_event = FALSE
  /\ exited_event = FALSE
  /\ caller = CallerInit

SetSubstrate(s) ==
  /\ history' = s.history
  /\ history_epoch' = s.epoch
  /\ checkpoint_map' = s.cmap
  /\ history_map' = s.hmap

\* The ghost stream follows every append and every erasure of history.
StreamFollows(s) ==
  LET n == Len(s.history) + s.epoch
  IN stream' = [i \in 1..n |->
                  IF i > s.epoch THEN s.history[i - s.epoch]
                  ELSE stream[i]]

viewstate == <<records, value, worker, ops, up, up_state>>

\* ------------------------------------------------------ the view's worker
\* RView._apply_changes dispatching an upstream INSERT to
\* Select._callback_insert: the cutoff test and the two unlocked appends.
DispatchInsert(t, v) ==
  /\ worker.pc = "idle"
  /\ ops < MaxOps
  /\ LET r == Record("INSERT", Len(up) + 1, t, v)
     IN /\ up' = Append(up, r)
        /\ up_state' = Append(up_state, "live")
        /\ ops' = ops + 1
        /\ IF t <= ViewTime
           THEN /\ records' = Append(records, r)
                /\ value' = Append(value, v)
                /\ worker' = [IdleWorker EXCEPT !.pc = "insert_add", !.record = r]
           ELSE UNCHANGED <<records, value, worker>>
  /\ UNCHANGED <<substrate, sub, stream>>
  /\ UNCHANGED rest

\* Select._callback_insert, its last statement: _add_to_history(record).
InsertAdd ==
  /\ worker.pc = "insert_add"
  /\ LET s == AddToHistory(Cur, <<worker.record>>)
     IN SetSubstrate(s) /\ StreamFollows(s)
  /\ worker' = IdleWorker
  /\ UNCHANGED <<records, value, ops, up, up_state, sub>>
  /\ UNCHANGED rest

\* The index Select._callback_delete stops at: the first matched record equal to
\* the DELETE's inversion partner; 0 when there is none.
DeleteIndex(partner) ==
  LET hits == {i \in 1..Len(records) : RecordEq(records[i], partner)}
  IN IF hits = {} THEN 0 ELSE MinOf(hits)

\* RView._apply_changes dispatching the upstream DELETE of upstream record i
\* to Select._callback_delete, up to and including _add_to_history.
DispatchDelete(i, t) ==
  /\ worker.pc = "idle"
  /\ ops < MaxOps
  /\ i \in 1..Len(up)
  /\ up_state[i] = "live"
  /\ up_state' = [up_state EXCEPT ![i] = "deleted"]
  /\ ops' = ops + 1
  /\ LET index == DeleteIndex(up[i])
     IN IF t <= ViewTime /\ index # 0
        THEN /\ LET s == AddToHistory(Cur,
                           <<RecordDelete(records[index], ViewTime)>>)
                IN SetSubstrate(s) /\ StreamFollows(s)
             /\ worker' = [IdleWorker EXCEPT !.pc = "delete_rm", !.index = index]
        ELSE UNCHANGED <<substrate, stream, worker>>
  /\ UNCHANGED <<records, value, up, sub>>
  /\ UNCHANGED rest

\* Select._callback_delete, the two assignments that drop the matched entry.
DeleteRemove ==
  /\ worker.pc = "delete_rm"
  /\ records' = RemoveAt(records, worker.index)
  /\ value' = RemoveAt(value, worker.index)
  /\ worker' = IdleWorker
  /\ UNCHANGED <<substrate, ops, up, up_state, sub, stream>>
  /\ UNCHANGED rest

\* The upstream records with the ids in ids, in upstream order.
Cited(ids) == SelectSeq(up, LAMBDA r : r.id \in ids)

\* RView._apply_changes dispatching an upstream ERASE of the records ids, all of
\* time t, to Select._callback_erase: the cutoff test.
DispatchErase(t, ids) ==
  /\ worker.pc = "idle"
  /\ ops < MaxOps
  /\ ids # {}
  /\ ids \subseteq 1..Len(up)
  /\ Cardinality(ids) <= MaxCite
  /\ \A i \in ids : up[i].time = t /\ up_state[i] # "erased"
  /\ up_state' = [i \in 1..Len(up) |-> IF i \in ids THEN "erased" ELSE up_state[i]]
  /\ ops' = ops + 1
  /\ IF t <= ViewTime
     THEN worker' = [IdleWorker EXCEPT !.pc = "erase_scan", !.records = Cited(ids),
                                      !.index = 1]
     ELSE UNCHANGED worker
  /\ UNCHANGED <<substrate, records, value, up, sub, stream>>
  /\ UNCHANGED rest

\* The index the outer loop of Select._callback_erase stops at next: the first
\* matched record at or after `from` that is `in records`; 0 when the loop ends.
EraseIndex(from, recs) ==
  LET hits == {i \in from..Len(records) : InRecords(records[i], recs)}
  IN IF hits = {} THEN 0 ELSE MinOf(hits)

\* Select._callback_erase, lines 54-65: advance to the next matched record that is
\* in records, drop it from the matched and projected lists, and consume its
\* entry of records.  The inner loop never advances rindex: it ends only when the
\* record equals records[0].
EraseScan ==
  /\ worker.pc = "erase_scan"
  /\ LET index == EraseIndex(worker.index, worker.records)
     IN IF index = 0
        THEN /\ worker' = IdleWorker
             /\ UNCHANGED <<records, value>>
        ELSE /\ records' = RemoveAt(records, index)
             /\ value' = RemoveAt(value, index)
             /\ IF RecordEq(records[index], worker.records[1])
                THEN worker' = [pc |-> "erase_rfh", record |-> records[index],
                                records |-> Tail(worker.records), index |-> index]
                ELSE worker' = [worker EXCEPT !.pc = "hung",
                                              !.record = records[index],
                                              !.index = index]
  /\ UNCHANGED <<substrate, ops, up, up_state, sub, stream>>
  /\ UNCHANGED rest

\* Select._callback_erase, line 67: _remove_from_history(record).
EraseRemoveFromHistory ==
  /\ worker.pc = "erase_rfh"
  /\ LET s == RemoveFromHistory(Cur, <<worker.record>>)
     IN SetSubstrate(s) /\ StreamFollows(s)
  /\ worker' = [worker EXCEPT !.pc = "erase_scan", !.record = None]
  /\ UNCHANGED <<records, value, ops, up, up_state, sub>>
  /\ UNCHANGED rest
\* ------------------------------------------------------ the client threads
\* A client calls subscribe(checkpoint, timeout): with the checkpoint it holds, or,
\* holding none, with None or with a token that is not in the map.  Line 145, the
\* unlocked _generate_checkpoint(), runs in the same step.  Whether the timeout
\* argument is None is drawn where it is first read, at the wait.
CallSubscribe(c) ==
  /\ sub[c].pc = "idle"
  /\ \E arg \in (IF sub[c].held # NoCp THEN {sub[c].held} ELSE {NoCp, UnknownCp}),
        pref \in GenerateCheckpoint(Cur, NoCp) :
       sub' = [sub EXCEPT ![c].pc = "called", ![c].arg = arg, ![c].ret = "none",
                          ![c].pref = pref]
  /\ UNCHANGED <<substrate, viewstate, stream>>
  /\ UNCHANGED rest

\* The client's state after subscribe returned (cp, changes).  A client that
\* passed the checkpoint it held appends the batch to what it has received; ret
\* tells how the call ended and at is the tail stamp at which cp was handed out.
Returned(c, cp, changes, ret) ==
  [sub EXCEPT ![c] = [IdleSub EXCEPT
     !.held = cp, !.ret = ret,
     !.at = IF ret = "timeout" THEN sub[c].at ELSE TailStamp(Cur),
     !.log = IF sub[c].held # NoCp THEN sub[c].log \o changes ELSE changes]]

\* subscribe, lines 159-175, as one step under the lock.
Finish(c, checkpoint) ==
  \E tok \in (IF TailStamp(Cur) \in DOMAIN history_map THEN {sub[c].pref}
              ELSE GenerateCheckpoint(Cur, sub[c].pref)) :
    LET r == SubscribeFinish(Cur, checkpoint, tok, AllRecords)
    IN /\ SetSubstrate(r.sub)
       /\ sub' = Returned(c, r.cp, r.changes, "batch")

\* subscribe taking the lock (line 147): with no valid checkpoint, or with news
\* already there, it runs to its return; otherwise it starts to wait, which
\* releases the lock.
SubscribeEnter(c) ==
  /\ sub[c].pc = "called"
  /\ LET checkpoint == Validated(Cur, sub[c].arg)
     IN IF checkpoint # NoCp /\ ~HasNews(Cur, checkpoint)
        THEN /\ \E timeout \in BOOLEAN :
                  sub' = [sub EXCEPT ![c].pc = "waiting", ![c].arg = checkpoint,
                                     ![c].timeout = timeout]
             /\ UNCHANGED substrate
        ELSE Finish(c, checkpoint)
  /\ UNCHANGED <<viewstate, stream>>
  /\ UNCHANGED rest

\* wait_for returning True: the waiter holds the lock again and sees news.
SubscribeWake(c) ==
  /\ sub[c].pc = "waiting"
  /\ HasNews(Cur, sub[c].arg)
  /\ Finish(c, sub[c].arg)
  /\ UNCHANGED <<viewstate, stream>>
  /\ UNCHANGED rest

\* wait_for returning False: the timeout elapsed and there is still no news.
SubscribeTimedOut(c) ==
  /\ sub[c].pc = "waiting"
  /\ sub[c].timeout
  /\ ~HasNews(Cur, sub[c].arg)
  /\ LET r == SubscribeTimeout(Cur, sub[c].arg)
     IN /\ SetSubstrate(r.sub)
        /\ sub' = Returned(c, r.cp, r.changes, "timeout")
  /\ UNCHANGED <<viewstate, stream>>
  /\ UNCHANGED rest

\* A client calls unsubscribe with the checkpoint it holds.
CallUnsubscribe(c) ==
  /\ sub[c].pc = "idle"
  /\ sub[c].held # NoCp
  /\ SetSubstrate(Unsubscribe(Cur, sub[c].held))
  /\ sub' = [sub EXCEPT ![c] = IdleSub]
  /\ UNCHANGED <<viewstate, stream>>
  /\ UNCHANGED rest

\* Field values are only ever compared for equality, so a new record takes a
\* value already seen or the least one not yet seen.
NextVals == {v \in Vals : \A w \in 1..(v - 1) : \E i \in 1..Len(up) : up[i].val = w}

\* -------------------------------------------------------------------- Next
Next ==
  \/ \E t \in Times, v \in NextVals : DispatchInsert(t, v)
  \/ InsertAdd
  \/ \E i \in 1..Len(up), t \in Times : DispatchDelete(i, t)
  \/ DeleteRemove
  \/ \E t \in Times, ids \in SUBSET (1..Len(up)) : DispatchErase(t, ids)
  \/ EraseScan
  \/ EraseRemoveFromHistory
  \/ \E c \in Subs : CallSubscribe(c)
  \/ \E c \in Subs : SubscribeEnter(c)
  \/ \E c \in Subs : SubscribeWake(c)
  \/ \E c \in Subs : SubscribeTimedOut(c)
  \/ \E c \in Subs : CallUnsubscribe(c)

Spec == Init /\ [][Next]_vars

\* The callers of the RTable.
TableNext ==
  \/ \E time \in Times, values \in Kwargs : RTableInsert(time, values)
  \/ \E time \in Times, record \in TableHeld : RTableDelete(time, record)
  \/ \E time \in Times : RTableErase(time)

TableSpec == Init /\ [][TableNext]_vars

\* The callers of the subscribable table and the workers of its views.
StackNext ==
  \/ \E time \in Times, val \in Vals : StoreInsert(time, val)
  \/ \E time \in Times, r \in Deletable : StoreDelete(time, r)
  \/ \E time \in Times : StoreErase(time)
  \/ \E n \in ViewNames : Pull(n)
  \/ \E n \in ViewNames : Dispatch(n)

StackSpec == Init /\ [][StackNext]_vars

\* The callers of the table and two SUM views on it: one made on the empty
\* table, one made at any time.
JoinNext ==
  \/ \E val \in Vals : StoreInsert(ViewTime, val)
  \/ \E r \in Deletable : StoreDelete(ViewTime, r)
  \/ StoreErase(ViewTime)
  \/ Pull("sum")
  \/ Dispatch("sum")
  \/ Join(LateSum)
  \/ views[LateSum].cp # NoCp /\ Pull(LateSum)
  \/ Dispatch(LateSum)

JoinSpec == Init /\ [][JoinNext]_vars

\* SELECT compares field values for equality only, so a new record takes a
\* value already seen or the least one not yet seen.
FreshVals ==
  {v \in Vals : \A u \in 1..(v - 1) : \E x \in DOMAIN obj : obj[x].val = u}

\* A table that is inserted into, the view's worker, a caller of the view's free
\* and a subscriber of the view.
LifeNext ==
  \/ \E val \in FreshVals : StoreInsert(ViewTime, val)
  \/ WorkerSubscribe
  \/ WorkerWake
  \/ WorkerTimedOut(MaxIdle)
  \/ WorkerApply
  \/ WorkerLeave
  \/ WorkerUnsubscribe
  \/ ViewFreeSet
  \/ ViewFreeReturn
  \/ ReaderSubscribe
  \/ ReaderUnsubscribe

LifeSpec == Init /\ [][LifeNext]_vars

\* One step of the worker thread.
WorkerStep ==
  \/ WorkerSubscribe
  \/ WorkerWake
  \/ WorkerTimedOut(MaxIdle)
  \/ WorkerApply
  \/ WorkerLeave
  \/ WorkerUnsubscribe

\* The value of a record that differs from the earlier ones while values last.
NextVal == CHOOSE v \in FreshVals : \A u \in FreshVals : u <= v

\* A view made over an empty table: the table's callers write once the worker
\* has subscribed.  With them the view's worker and a caller of the view's free.
ShutdownNext ==
  \/ thread.checkpoint # NoCp /\ StoreInsert(ViewTime, NextVal)
  \/ thread.checkpoint # NoCp /\ \E r \in Deletable : StoreDelete(ViewTime, r)
  \/ thread.checkpoint # NoCp /\ StoreErase(ViewTime)
  \/ WorkerSubscribe
  \/ WorkerWake
  \/ WorkerTimedOut(MaxIdle)
  \/ WorkerApply
  \/ WorkerLeave
  \/ WorkerUnsubscribe
  \/ ViewFreeSet
  \/ ViewFreeReturn

\* Threads are scheduled and timers fire: the worker thread goes on while it has
\* a step to take, and so does the thread inside free.
ShutdownFair ==
  /\ Init /\ [][ShutdownNext]_vars
  /\ WF_vars(WorkerStep)
  /\ WF_vars(ViewFreeReturn)

\* A worker left alone with a table that is inserted into.
BackoffNext ==
  \/ \E val \in FreshVals : StoreInsert(ViewTime, val)
  \/ WorkerSubscribe
  \/ WorkerWake
  \/ WorkerTimedOut(MaxEmpty)
  \/ WorkerApply

BackoffSpec == Init /\ [][BackoffNext]_vars

\* The table with a writer and the threads that subscribe to it, with and without
\* a timeout.
WaitNext ==
  \/ store.ops < MaxWrites /\ StoreInsert(ViewTime, MaxVal)
  \/ \E w \in Subs : WaiterSubscribe(w)
  \/ \E w \in Subs : WaiterWake(w)
  \/ \E w \in Subs : WaiterTimedOut(w)
  \/ \E w \in Subs : WaiterUnsubscribe(w)

WaitSpec == Init /\ [][WaitNext]_vars

\* Threads are scheduled: a waiter that was notified takes the lock again.
WaitFair == WaitSpec /\ \A w \in Subs : WF_vars(WaiterWake(w))

\* The same with a caller of the table's free.
FreeNext ==
  \/ WaitNext
  \/ SubstrateFreeNotify
  \/ SubstrateFreeReturn

\* Threads are scheduled: a waiter that was notified takes the lock again, and
\* the polling loop of free goes round.
FreeFair ==
  /\ Init /\ [][FreeNext]_vars
  /\ \A w \in Subs : WF_vars(WaiterWake(w))
  /\ WF_vars(SubstrateFreeReturn)

\* ================================================================== claims
Stamps(cmap) == {cmap[tok].stamp : tok \in DOMAIN cmap}

Holders(tok) == {c \in Subs : sub[c].held = tok}

\* What a call of client c returned in this step: the suffix added to its log, or
\* the whole log for a client that held no checkpoint.
Batch(c) ==
  IF sub[c].held # NoCp THEN DropFirst(sub'[c].log, Len(sub[c].log)) ELSE sub'[c].log

\* The slots with stamps in (stamp(checkpoint), tail], None filtered out.
Window(checkpoint) ==
  FilterNone(DropFirst(history, checkpoint_map[checkpoint].stamp - history_epoch))

\* C1: subscribe with None or with a token that is not in the checkpoint map
\* returns without waiting, with exactly the non-None records of history in
\* history order and a checkpoint whose stamp is the tail.
C1_FreshSubscribeReturnsHistory ==
  [][\A c \in Subs :
       (/\ sub[c].pc = "called"
        /\ sub[c].arg \notin DOMAIN checkpoint_map
        /\ sub'[c] # sub[c])
       => /\ sub'[c].pc = "idle"
          /\ Batch(c) = FilterNone(history)
          /\ sub'[c].held \in DOMAIN checkpoint_map'
          /\ checkpoint_map'[sub'[c].held].stamp = TailStamp(Cur)]_vars

\* C2: a subscribe with a checkpoint of the map that returns a new checkpoint
\* returns exactly the slots with stamps in (stamp(cp), stamp(new_cp)], None
\* filtered out, in history order, and stamp(new_cp) is the tail at the return.
C2_WindowAfterCheckpoint ==
  [][\A c \in Subs :
       (/\ sub[c].pc \in {"called", "waiting"}
        /\ sub[c].arg \in DOMAIN checkpoint_map
        /\ sub'[c].pc = "idle"
        /\ sub'[c].held # sub[c].arg)
       => /\ Batch(c) = Window(sub[c].arg)
          /\ sub'[c].held \in DOMAIN checkpoint_map'
          /\ checkpoint_map'[sub'[c].held].stamp = TailStamp(Cur)]_vars

NoErasure == \A i \in 1..Len(stream) : stream[i] # None /\ stream[i].action # "ERASE"

\* C3: with no erasures, the batches a subscriber received since its
\* subscribe(None), concatenated, are the history from stamp 0 up to the stamp of
\* the checkpoint it holds: every slot once and in order.
C3_BatchesReproduceStream ==
  \A c \in Subs :
    (sub[c].pc = "idle" /\ sub[c].held # NoCp /\ NoErasure)
    => sub[c].log = SubSeq(stream, 1, checkpoint_map[sub[c].held].stamp)

\* C4: a subscribe(cp, timeout) with a valid cp that times out with no news
\* returns (cp, empty) and leaves the checkpoint map, the history map, the
\* history and the epoch unchanged, so the caller can retry with cp.
C4_TimeoutLeavesStateUnchanged ==
  [][\A c \in Subs :
       (/\ sub[c].pc = "waiting"
        /\ ~HasNews(Cur, sub[c].arg)
        /\ sub'[c] # sub[c])
       => /\ sub'[c].pc = "idle"
          /\ sub'[c].held = sub[c].arg
          /\ sub'[c].log = sub[c].log
          /\ UNCHANGED substrate
          /\ sub[c].arg \in DOMAIN checkpoint_map']_vars

\* A subscribe has timed out and its caller still holds its checkpoint.
C4_TimedOut ==
  \E c \in Subs :
    /\ sub[c].ret = "timeout"
    /\ sub[c].held \in DOMAIN checkpoint_map
    /\ checkpoint_map[sub[c].held].refcount = Cardinality(Holders(sub[c].held))

\* C5: every checkpoint of the map has a refcount of at least 1 that equals the
\* number of subscribers holding that token.
C5_RefcountCountsHolders ==
  \A tok \in DOMAIN checkpoint_map :
    /\ checkpoint_map[tok].refcount >= 1
    /\ checkpoint_map[tok].refcount = Cardinality(Holders(tok))

\* C6: when an unsubscribe removes the oldest checkpoint while others remain,
\* the epoch becomes the smallest stamp still in the map and history holds
\* exactly the slots from that stamp to the tail.
C6_TruncatesToOldestStamp ==
  [][(/\ \E tok \in (DOMAIN checkpoint_map) \ (DOMAIN checkpoint_map') :
            checkpoint_map[tok].stamp = MinOf(Stamps(checkpoint_map))
      /\ DOMAIN checkpoint_map' # {})
     => /\ history_epoch' = MinOf(Stamps(checkpoint_map'))
        /\ history' = DropFirst(history,
                         MinOf(Stamps(checkpoint_map')) - history_epoch)]_vars

\* C7: once the last subscriber has unsubscribed, the epoch is the tail and the
\* history buffer is empty.
C7_EmptyMapTruncatesAll ==
  [][(DOMAIN checkpoint_map # {} /\ DOMAIN checkpoint_map' = {})
     => /\ history' = <<>>
        /\ history_epoch' = TailStamp(Cur)]_vars

\* C8: _remove_from_history never removes or shifts a slot and never changes the
\* epoch or the two maps: it only turns matching slots into None and extends the
\* tail; and a None slot stays None for as long as its stamp is in history.
C8_ErasureKeepsStamps ==
  [][/\ (worker.pc = "erase_rfh" /\ worker' # worker)
        => /\ history_epoch' = history_epoch
           /\ checkpoint_map' = checkpoint_map
           /\ history_map' = history_map
           /\ Len(history') = Len(history) + 1
           /\ history'[Len(history')].action = "ERASE"
           /\ \A i \in 1..Len(history) :
                \/ history'[i] = history[i]
                \/ history'[i] = None /\ InRecords(history[i], <<worker.record>>)
           /\ \A tok \in DOMAIN checkpoint_map :
                checkpoint_map'[tok].stamp - history_epoch'
                  = checkpoint_map[tok].stamp - history_epoch
     /\ \A i \in 1..Len(history) :
          (history[i] = None /\ i + history_epoch > history_epoch')
          => history'[i + history_epoch - history_epoch'] = None]_vars

\* An erased slot lies inside the window of a held checkpoint, the ERASE record
\* after it.
C8_NoneInsideWindow ==
  \E i \in 1..Len(history), tok \in DOMAIN checkpoint_map :
    /\ history[i] = None
    /\ checkpoint_map[tok].stamp - history_epoch < i
    /\ Holders(tok) # {}
    /\ history[Len(history)].action = "ERASE"

\* C9: _remove_from_history(records) nulls the matching slots and appends one
\* ERASE citing records with their time, in one step; no state shows a None slot
\* without a later ERASE; and a subscriber whose window spans the call receives
\* the ERASE record.
C9_ErasureAtomicAndDelivered ==
  [][/\ (worker.pc = "erase_rfh" /\ worker' # worker)
        => /\ Len(history') = Len(history) + 1
           /\ history'[Len(history')] = Erasure(worker.record.time, <<worker.record>>)
           /\ \A i \in 1..Len(history) :
                history'[i] = IF InRecords(history[i], <<worker.record>>)
                              THEN None ELSE history[i]
     /\ \A i \in 1..Len(history) :
          history[i] = None
          => \E j \in (i + 1)..Len(history) : history[j].action = "ERASE"
     /\ \A c \in Subs :
          (/\ sub[c].pc \in {"called", "waiting"}
           /\ sub[c].arg \in DOMAIN checkpoint_map
           /\ sub'[c].pc = "idle"
           /\ sub'[c].held # sub[c].arg)
          => \A i \in 1..Len(history) :
               (/\ i > checkpoint_map[sub[c].arg].stamp - history_epoch
                /\ history[i].action = "ERASE")
               => \E k \in 1..Len(Batch(c)) : Batch(c)[k] = history[i]]_vars

\* C10: the checkpoint map and the history map are mutually inverse; a token in
\* the map is never minted again, so every held token still denotes the tail at
\* which it was handed out; subscribers that reached the same tail hold the same
\* token.
C10_MapsMutuallyInverse ==
  /\ \A tok \in DOMAIN checkpoint_map :
       /\ checkpoint_map[tok].stamp \in DOMAIN history_map
       /\ history_map[checkpoint_map[tok].stamp] = tok
  /\ \A stamp \in DOMAIN history_map :
       /\ history_map[stamp] \in DOMAIN checkpoint_map
       /\ checkpoint_map[history_map[stamp]].stamp = stamp
  /\ \A c \in Subs :
       sub[c].held # NoCp
       => /\ sub[c].held \in DOMAIN checkpoint_map
          /\ checkpoint_map[sub[c].held].stamp = sub[c].at
  /\ \A c, d \in Subs :
       (sub[c].held # NoCp /\ sub[d].held # NoCp /\ sub[c].at = sub[d].at)
       => sub[c].held = sub[d].held

\* Two subscribers reached the same tail and share its token, while a third
\* token is in the map.
C10_SharedToken ==
  \E c, d \in Subs :
    /\ c # d
    /\ sub[c].held # NoCp
    /\ sub[c].held = sub[d].held
    /\ checkpoint_map[sub[c].held].refcount >= 2

\* C11: a worker that starts with subscribe(None) and goes on with the
\* checkpoint it was last returned (RView._callback) dispatches the batches it
\* pulls in order, so log is what it has dispatched: no upstream INSERT or DELETE
\* record is dispatched twice.
C11_DispatchedExactlyOnce ==
  \A c \in Subs :
    \A i, j \in 1..Len(sub[c].log) :
      (i < j /\ sub[c].log[i].action \in {"INSERT", "DELETE"})
      => sub[c].log[i] # sub[c].log[j]

\* The step is a call of RTable.<op>.
TableCalled(op) == table'.calls = table.calls + 1 /\ table'.call.op = op

\* C18: RTable.insert with a keyword that is not in the schema raises the
\* invalid-field exception and leaves the buckets and the history unchanged; with
\* schema fields only it creates one INSERT record, absent fields at the column
\* default, and appends it to the bucket at time and to the tail of history.
C18_InsertValidatesThenAppends ==
  [][TableCalled("insert") =>
       LET call == table'.call
       IN IF \E name \in DOMAIN call.values : name \notin Fields
          THEN /\ call.raised = "RTableInvalidFieldException"
               /\ call.returned = <<>>
               /\ table'.made = table.made
               /\ table'.records = table.records
               /\ table'.history = table.history
          ELSE /\ call.raised = "none"
               /\ Len(call.returned) = 1
               /\ LET record == call.returned[1]
                  IN /\ record.action = "INSERT"
                     /\ record.time = call.time
                     /\ \A f \in Fields :
                          record.values[f] = IF f \in DOMAIN call.values
                                             THEN call.values[f] ELSE IntDefault
                     /\ \A i \in 1..Len(table.history) :
                          table.history[i][1].id # record.id
                     /\ table'.records =
                          [table.records EXCEPT ![call.time] = Append(@, record)]
                     /\ table'.history = Append(table.history, <<record, None>>)]_vars

\* An insert with a schema field left out has succeeded after an insert with an
\* unknown keyword was rejected.
C18_DefaultedAfterRejected ==
  /\ table.call.op = "insert"
  /\ table.call.raised = "none"
  /\ DOMAIN table.call.values # Fields
  /\ Len(table.history) = 1
  /\ table.calls = 2
  /\ table.history[1][1].values["value"] = IntDefault

\* C19: RTable.delete(time, record) returns the DELETE record of
\* record.delete(time) and appends it to the bucket at record.time and to the
\* tail of history.
C19_DeleteAppendsToOriginalBucket ==
  [][TableCalled("delete") =>
       \E i \in 1..Len(table.history) :
         LET record == table.history[i][1]
             drecord == [record EXCEPT !.action = "DELETE", !.time = table'.call.time]
         IN /\ record.id = table'.call.record
            /\ table'.call.raised = "none"
            /\ Len(table'.call.returned) = 1
            /\ table'.call.returned[1].action = "DELETE"
            /\ table'.call.returned[1].time = drecord.time
            /\ table'.call.returned[1].values = drecord.values
            /\ table'.records[record.time]
                 = Append(table.records[record.time], table'.call.returned[1])
            /\ table'.history
                 = Append(table.history, <<table'.call.returned[1], None>>)]_vars

\* C20: RTable.erase(time) of a bucket that is not empty removes the bucket and
\* returns its records; afterwards no record of the bucket is in a history slot
\* that is not None, and one ERASE record citing them is the tail of history.
C20_EraseRemovesBucketAndHistory ==
  [][(TableCalled("erase") /\ table.records[table'.call.time] # <<>>) =>
       LET erased == table.records[table'.call.time]
       IN /\ table'.call.raised = "none"
          /\ table'.call.returned = erased
          /\ table'.records[table'.call.time] = <<>>
          /\ \A i \in 1..Len(table'.history), k \in 1..Len(erased) :
               table'.history[i][1] # erased[k]
          /\ Len(table'.history) = Len(table.history) + 1
          /\ table'.history[Len(table'.history)][1].action = "ERASE"]_vars

\* ---- the stack of views
\* The worker of view n has dispatched everything its upstream has published.
Drained(n) ==
  /\ views[n].batch = <<>>
  /\ views[n].cp = Len(Upstream(n))
  /\ ~views[n].hung

\* The table's INSERT record id is live at the view time: of time <= ViewTime,
\* not erased, and not deleted by a DELETE of time <= ViewTime.
Live(id) ==
  /\ id \in DOMAIN obj
  /\ obj[id].action = "INSERT"
  /\ obj[id].time <= ViewTime
  /\ ~obj[id].gone
  /\ \A d \in DOMAIN obj :
       ~(d[1] = "U" /\ obj[d].of = id /\ ~obj[d].gone /\ obj[d].time <= ViewTime)

\* The field values of the live records among the first n table records, in
\* insertion order.
RECURSIVE LiveValues(_)
LiveValues(n) ==
  IF n = 0 THEN <<>>
  ELSE IF Live(<<"U", n>>) THEN Append(LiveValues(n - 1), obj[<<"U", n>>].val)
  ELSE LiveValues(n - 1)

RECURSIVE SeqSum(_)
SeqSum(s) == IF s = <<>> THEN 0 ELSE s[1] + SeqSum(Tail(s))

\* C12: once its worker has drained its backlog, the SUM view's value is the sum
\* of the field over the live INSERT records with time <= ViewTime.
C12_SumIsLiveSum ==
  Drained("sum") => views["sum"].value = SeqSum(LiveValues(store.made))

\* C13: once its worker has drained its backlog, the SELECT view's output is the
\* list of projections of the live INSERT records with time <= ViewTime, in
\* upstream insertion order.
C13_SelectIsLiveProjection ==
  Drained("sel") => views["sel"].value = LiveValues(store.made)

\* C14: once all workers are quiescent, SUM(U) equals SUM(SELECT(U)).
C14_StackedSumAgrees ==
  (\A n \in ViewNames : Drained(n)) => views["sum"].value = views["sum2"].value

\* The time a view's callback compares with the view time.
SlotTime(slot) == IF slot.kind = "erase" THEN slot.time ELSE obj[slot.id].time

\* C15: when a SELECT or SUM view dispatches an INSERT, DELETE or ERASE whose
\* time is greater than the view time, its value, its matched and projected
\* lists and its own history are unchanged, and so is every record.
C15_CutoffLeavesViewUnchanged ==
  [][\A n \in ViewNames :
       (/\ views[n].batch # <<>>
        /\ views'[n].batch = Tail(views[n].batch)
        /\ SlotTime(Head(views[n].batch)) > ViewTime)
       => /\ views'[n] = [views[n] EXCEPT !.batch = Tail(@)]
          /\ obj' = obj]_vars

\* SUM and SELECT have dispatched everything the table published, a record
\* later than the view time among it, and have emitted nothing.
C15_LateRecordIgnored ==
  /\ Drained("sum") /\ Drained("sel")
  /\ \E i \in 1..Len(store.history) :
       store.history[i].kind = "rec" /\ obj[store.history[i].id].time > ViewTime
  /\ views["sel"].history = <<>>
  /\ views["sel"].records = <<>>
  /\ Len(views["sum"].history) = 1

\* The DELETE records in the history of the table or of SELECT.
DeletesInHistory ==
  {s.id : s \in {store.history[i] : i \in 1..Len(store.history)}
             \cup {views["sel"].history[i] : i \in 1..Len(views["sel"].history)}}
    \cap {x \in DOMAIN obj : obj[x].action = "DELETE"}

\* C16: every DELETE record d in a history and the INSERT r it was derived from
\* point at each other and d carries r's values, until one of them is erased.
C16_InversionPairsLinked ==
  \A d \in DeletesInHistory :
    LET r == obj[d].of
    IN (~obj[d].gone /\ ~obj[r].gone)
       => /\ obj[d].inv = r
          /\ obj[r].inv = d
          /\ obj[d].val = obj[r].val

\* C17: no later operation changes the action, time or values of a record that
\* is in a history, and its inversion link is only ever set by its own delete
\* or cleared: it is never rewired from one record to another.
C17_RecordsNeverRewired ==
  [][\A x \in DOMAIN obj :
       /\ obj'[x].action = obj[x].action
       /\ obj'[x].time = obj[x].time
       /\ obj'[x].val = obj[x].val
       /\ \/ obj'[x].inv = obj[x].inv
          \/ obj'[x].inv = Nil
          \/ obj[x].inv = Nil]_vars

\* ---- the substrate, continued
\* C30: after every step, every stamp of the checkpoint map lies between the
\* epoch and the tail stamp epoch + len(history), so truncation has dropped no
\* slot of a held window and the slice indices of subscribe are within history;
\* and no step decreases the tail stamp, truncation leaving it as it was.
C30_StampsWithinHistory ==
  [][/\ \A tok \in DOMAIN checkpoint_map' :
          /\ history_epoch' <= checkpoint_map'[tok].stamp
          /\ checkpoint_map'[tok].stamp <= history_epoch' + Len(history')
     /\ Len(history') + history_epoch' >= TailStamp(Cur)
     /\ (history_epoch' # history_epoch
         => Len(history') + history_epoch' = TailStamp(Cur))]_vars

\* History has been truncated up to the oldest held stamp while a later
\* checkpoint is held as well and slots remain.
C30_TruncatedBelowHeld ==
  /\ history_epoch > 0
  /\ history # <<>>
  /\ \E a, b \in DOMAIN checkpoint_map :
       /\ checkpoint_map[a].stamp = history_epoch
       /\ checkpoint_map[b].stamp = TailStamp(Cur)
       /\ Holders(a) # {} /\ Holders(b) # {}

\* ---- the stack of views, continued
\* The INSERT records of a SUM view's history that are not immediately followed
\* by their DELETE at the view time.
Undeleted(h) ==
  {i \in 1..Len(h) :
     /\ h[i].action = "INSERT"
     /\ ~(/\ i < Len(h)
          /\ h[i + 1] = SumRecord("DELETE", h[i].val))}

\* C26: every fold of a SUM view appends the DELETE of its current output record,
\* of time ViewTime, and then an INSERT carrying the new value; after every step
\* the only INSERT of its history without its DELETE is the last record, and it
\* carries the view's value.
C26_SumHistoryWellFormed ==
  [][\A n \in {m \in ViewNames : IsSum(m)} :
       LET h == views[n].history
           g == views'[n].history
       IN /\ g # h
             => g = h \o <<SumRecord("DELETE", views[n].value),
                           SumRecord("INSERT", views'[n].value)>>
          /\ h[Len(h)] = SumRecord("INSERT", views[n].value)
          /\ Undeleted(g) = {Len(g)}
          /\ g[Len(g)] = SumRecord("INSERT", views'[n].value)
          /\ \A i \in 1..Len(g) : g[i].action = "DELETE" => i > 1 /\ i - 1 \notin Undeleted(g)]_vars

\* SUM has folded two changes and holds a value other than its default.
C26_FoldedTwice ==
  /\ Len(views["sum"].history) >= 5
  /\ views["sum"].value # IntDefault
  /\ Drained("sum")

\* The positions of record id in a list of record identities.
PositionsOf(ids, id) == {i \in 1..Len(ids) : ids[i] = id}

\* C27: when SELECT dispatches a DELETE d with d.time <= ViewTime whose
\* inversion partner is in the matched list, exactly the partner's entry leaves
\* the matched list, the entry of the same index leaves the projected list, and
\* one DELETE of time ViewTime derived from the partner is appended to the view's
\* history; otherwise the lists and the history are unchanged.  After every step
\* the two lists have the same length and projected[i] is the projection of
\* matched[i].
C27_DeleteRemovesPartnerOnly ==
  [][LET v == views["sel"]
         w == views'["sel"]
     IN /\ (/\ v.batch # <<>>
            /\ w.batch = Tail(v.batch)
            /\ Head(v.batch).kind = "rec"
            /\ obj[Head(v.batch).id].action = "DELETE")
           => LET d == Head(v.batch).id
                  partner == obj[d].inv
                  at == PositionsOf(v.records, partner)
              IN IF obj[d].time <= ViewTime /\ at # {}
                 THEN \E i \in at :
                        /\ w.records = RemoveAt(v.records, i)
                        /\ w.value = RemoveAt(v.value, i)
                        /\ Len(w.history) = Len(v.history) + 1
                        /\ SubSeq(w.history, 1, Len(v.history)) = v.history
                        /\ LET made == w.history[Len(w.history)]
                           IN /\ made.kind = "rec"
                              /\ obj'[made.id].action = "DELETE"
                              /\ obj'[made.id].time = ViewTime
                              /\ obj'[made.id].of = partner
                 ELSE /\ w.records = v.records
                      /\ w.value = v.value
                      /\ w.history = v.history
        /\ Len(w.records) = Len(w.value)
        /\ \A i \in 1..Len(w.records) : w.value[i] = obj'[w.records[i]].val]_vars

\* The matched records an erase of recs keeps, removal being one-for-one: a
\* matched record equal to an entry of recs is removed and uses that entry up.
RECURSIVE KeptAfterErase(_, _, _)
KeptAfterErase(o, matched, recs) ==
  IF matched = <<>> THEN <<>>
  ELSE LET hits == {j \in 1..Len(recs) : ObjEq(o, Head(matched), recs[j])}
       IN IF hits # {}
          THEN KeptAfterErase(o, Tail(matched), RemoveAt(recs, MinOf(hits)))
          ELSE <<Head(matched)>> \o KeptAfterErase(o, Tail(matched), recs)

\* C28: when SELECT dispatches an ERASE of time <= ViewTime, the matched entries
\* are removed one-for-one with the entries of its records, the others are kept
\* in their order with their projections, and every removed record is forwarded
\* to the view's history: its slot is gone and an ERASE citing it is appended.
C28_EraseRemovesOneForOne ==
  [][LET v == views["sel"]
         w == views'["sel"]
     IN (/\ v.batch # <<>>
         /\ w.batch = Tail(v.batch)
         /\ Head(v.batch).kind = "erase"
         /\ Head(v.batch).time <= ViewTime)
        => LET kept == KeptAfterErase(obj, v.records, Head(v.batch).cites)
               removed == {v.records[i] : i \in 1..Len(v.records)}
                            \ {kept[i] : i \in 1..Len(kept)}
           IN /\ w.records = kept
              /\ w.value = [i \in 1..Len(kept) |-> obj[kept[i]].val]
              /\ \A r \in removed :
                   /\ \A i \in 1..Len(w.history) :
                        ~(w.history[i].kind = "rec" /\ w.history[i].id = r)
                   /\ \E i \in (Len(v.history) + 1)..Len(w.history) :
                        /\ w.history[i].kind = "erase"
                        /\ r \in {w.history[i].cites[k] :
                                    k \in 1..Len(w.history[i].cites)}]_vars

\* ------------------------------------------------------------ C21
\* C21: the worker unsubscribes from the table before it sets the exited event:
\* in every state in which the exited event is set, and so in every state in
\* which the view's free() has returned, the worker holds no reference on a
\* checkpoint of the table.
C21_UnsubscribedBeforeConfirmed ==
  (exited_event \/ caller.free = "returned") =>
    /\ ~thread.holds
    /\ thread.checkpoint \notin DOMAIN src.cmap

\* ------------------------------------------------------------ C22
\* C22: the view's free() returns only after the worker has terminated and the
\* view's own checkpoint map is empty, every subscriber of the view having
\* unsubscribed.
C22_FreeJoinsAndDrains ==
  caller.free = "returned" =>
    /\ thread.pc \in {"done", "raised"}
    /\ DOMAIN own.cmap = {}

\* ------------------------------------------------------------ C25
\* 2^k, for the doubling of the backoff.
RECURSIVE Doubled(_, _)
Doubled(x, k) == IF k = 0 THEN x ELSE Doubled(2 * x, k - 1)

\* C25: the timeout the worker passes to subscribe is the initial one doubled
\* once for every call in a row that returned no changes, with PUBSUB_MAX_TIMEOUT
\* as its ceiling, so it is never below the initial timeout nor above the
\* ceiling.
C25_BackoffFollowsEmpties ==
  /\ thread.timeout =
       MinOf({PUBSUB_MAX_TIMEOUT,
              Doubled(PUBSUB_INITIAL_TIMEOUT, thread.empties)})
  /\ PUBSUB_INITIAL_TIMEOUT <= thread.timeout
  /\ thread.timeout <= PUBSUB_MAX_TIMEOUT

\* ------------------------------------------------------------ C29
\* C29: once the exit event is set on a view whose worker was started, the
\* worker leaves its loop and sets the exited event, the view's free() returns,
\* and the worker runs to its end.
C29_ShutdownCompletes ==
  exit_event ~>
    (/\ exited_event
     /\ caller.free = "returned"
     /\ thread.pc \in {"done", "raised"})

\* ------------------------------------------------------------ C24
\* C24: threads waiting inside subscribe do not keep a writer from appending, and
\* no wake-up is lost: a thread that waits in subscribe(cp, timeout), with a
\* timeout or with None, while the tail stamp is greater than the stamp of cp
\* returns in the end, and a subscribe that returns from its wait with news
\* returns a new checkpoint whose stamp, the end of its window, is the tail stamp
\* it found.
C24_NoWakeupLost ==
  /\ \A w \in Subs :
       (caller.waiter[w].pc = "waiting" /\ HasNews(SrcSub, caller.waiter[w].held))
         ~> (caller.waiter[w].pc = "idle" /\ caller.waiter[w].woke)
  /\ [][\A w \in Subs :
          (/\ caller.waiter[w].pc = "waiting"
           /\ caller'.waiter[w].pc = "idle"
           /\ caller'.waiter[w].woke) =>
            /\ caller'.waiter[w].held # caller.waiter[w].held
            /\ caller'.waiter[w].held \in DOMAIN src'.cmap
            /\ src'.cmap[caller'.waiter[w].held].stamp = TailStamp(SrcSub)]_vars
  /\ []((store.ops < MaxWrites /\ \E w \in Subs : caller.waiter[w].pc = "waiting")
          => ENABLED StoreInsert(ViewTime, MaxVal))

\* A thread that waited with timeout=None has returned with news while the other
\* thread waits.
C24_WokenWithoutTimeout ==
  \E w, u \in Subs :
    /\ caller.waiter[w].pc = "idle"
    /\ caller.waiter[w].woke
    /\ ~caller.waiter[w].timeout
    /\ caller.waiter[u].pc = "waiting"

\* ------------------------------------------------------------ C23
\* C23: the table's free() wakes every thread that waits on the condition, it
\* returns only in a state where the checkpoint map is empty, so not while a
\* subscriber holds a checkpoint, and once every subscriber has unsubscribed
\* and stays so it returns.
C23_FreeWakesAndDrains ==
  /\ [][(caller.sfree = "idle" /\ caller'.sfree = "polling") =>
          \A w \in Subs :
            caller.waiter[w].pc = "waiting" => Notifies' > caller.waiter[w].since
       ]_vars
  /\ [][(caller.sfree = "polling" /\ caller'.sfree = "returned") =>
          /\ DOMAIN src.cmap = {}
          /\ \A w \in Subs : caller.waiter[w].held = NoCp]_vars
  /\ ~<>[](/\ caller.sfree = "polling"
           /\ \A w \in Subs :
                caller.waiter[w].pc = "idle" /\ caller.waiter[w].held = NoCp)

\* ------------------------------------------------------------ C31
\* C31: subscribe treats every token of the checkpoint map alike, 0 included: a
\* subscribe with a checkpoint of the map that returns a new checkpoint returns
\* the window after the old checkpoint's stamp, not the full record set, and
\* takes one reference off the old checkpoint, removing it at zero.
C31_TokenZeroTreatedAlike ==
  [][\A c \in Subs : \A tok \in Tokens :
       (/\ sub[c].pc \in {"called", "waiting"}
        /\ sub[c].arg = tok
        /\ tok \in DOMAIN checkpoint_map
        /\ sub'[c].pc = "idle"
        /\ sub'[c].held # tok)
       => /\ Batch(c) = Window(tok)
          /\ IF checkpoint_map[tok].refcount = 1
             THEN tok \notin DOMAIN checkpoint_map'
             ELSE /\ tok \in DOMAIN checkpoint_map'
                  /\ checkpoint_map'[tok].refcount =
                       checkpoint_map[tok].refcount - 1]_vars

\* ------------------------------------------------------------ C33
\* C33: on every path on which the worker leaves its loop, also when the exit
\* event was set before its first subscribe, the checkpoint it passes to the
\* table's unsubscribe is a token of the table's checkpoint map that it holds,
\* so the call does not raise, and once released it is no longer held.
C33_UnsubscribesHeldToken ==
  /\ thread.pc = "exited" =>
       /\ thread.checkpoint \in DOMAIN src.cmap
       /\ thread.holds
  /\ thread.pc # "raised"
  /\ thread.pc = "done" => ~thread.holds

\* ------------------------------------------------------------ C34
\* C34: Select._callback_erase terminates for every ERASE it is handed, whatever
\* the matched list and the records tuple, also when a matched record equals an
\* entry of records that is not the first: the worker never spins inside the
\* handler, and with changes left in its batch it goes on to dispatch the next.
C34_EraseHandlerTerminates ==
  /\ ~views["sel"].hung
  /\ views["sel"].batch # <<>> => ENABLED Dispatch("sel")

\* ------------------------------------------------------------ C35
\* C35: two SUM views on the same table, field and view time have the same
\* value once both have dispatched everything the table published, whether the
\* view was made before or after the table's inserts, deletes and erases, and
\* whether or not an erase blanked a slot before the view's worker pulled it.
C35_JoinTimeIndependent ==
  (Drained("sum") /\ Drained(LateSum)) =>
    views["sum"].value = views[LateSum].value

\* ------------------------------------------------------------ C32
\* The view's output at a point of its history: the INSERT records among the
\* slots h, in order, that no DELETE among them deletes and no ERASE among them
\* cites.
OutputAt(h) ==
  SelectSeq(h, LAMBDA r :
    /\ r.action = "INSERT"
    /\ \A i \in 1..Len(h) :
         /\ ~(h[i].action = "DELETE" /\ h[i].id = r.id)
         /\ ~(h[i].action = "ERASE" /\ \E k \in 1..Len(h[i].cites) : h[i].cites[k] = r))

\* C32: a subscribe(None) on the view, also one made while the view's worker is
\* inside a callback, returns records and a checkpoint that describe the same
\* point of the view's history: the records are the view's output at the
\* checkpoint's stamp, so no INSERT of the snapshot comes again in a later window
\* and no DELETE of a record of the snapshot lies before the checkpoint.
C32_SnapshotAtCheckpoint ==
  [][\A c \in Subs :
       (/\ sub[c].pc = "called"
        /\ sub[c].arg \notin DOMAIN checkpoint_map
        /\ sub'[c].pc = "idle")
       => Batch(c) = OutputAt(SubSeq(stream, 1, TailStamp(Cur)))]_vars
====
